---- MODULE Spec2Model ----
(***************************************************************************)
(* Model of assets/scripts/colors.py: the generator that reads the OKLCH   *)
(* colour table colors.json and prints one Rust constant per (family,       *)
(* brightness) pair followed by the aggregate ALL constant.                 *)
(*                                                                          *)
(* Text is modelled byte by byte: a string is a sequence of one-character   *)
(* strings, a printed line is such a sequence, stdout is a sequence of      *)
(* lines.  A JSON value of a colour entry is a record [t, v]: t is its JSON *)
(* type ("num" or "str") and v its integer value (0 for a string).          *)
(***************************************************************************)
EXTENDS Integers, Sequences, FiniteSets, TLC

\* Total number of (family, brightness) pairs of an input table.
MaxPairs == 3

-----------------------------------------------------------------------------
(* Python built-ins used by the script *)

Digits == <<"0", "1", "2", "3", "4", "5", "6", "7", "8", "9">>

\* The upper-case form of each ASCII lower-case letter.
ToUpper == [a |-> "A", b |-> "B", c |-> "C", d |-> "D", e |-> "E", f |-> "F",
            g |-> "G", h |-> "H", i |-> "I", j |-> "J", k |-> "K", l |-> "L",
            m |-> "M", n |-> "N", o |-> "O", p |-> "P", q |-> "Q", r |-> "R",
            s |-> "S", t |-> "T", u |-> "U", v |-> "V", w |-> "W", x |-> "X",
            y |-> "Y", z |-> "Z"]

\* str.upper() on one ASCII character.
upperChar(c) == IF c \in DOMAIN ToUpper THEN ToUpper[c] ELSE c

\* str.upper()
upper(s) == [k \in 1..Len(s) |-> upperChar(s[k])]

\* str(n) for an int n >= 0, as the f-string formats {len(color_names)}.
RECURSIVE str(_)
str(n) == IF n < 10 THEN <<Digits[n + 1]>>
          ELSE str(n \div 10) \o <<Digits[(n % 10) + 1]>>

\* repr() of a str: single quotes, unless the string holds a single quote and
\* no double quote; the quote character and the backslash are escaped.
reprStr(s) ==
    LET has(c) == \E k \in 1..Len(s) : s[k] = c
        q == IF has("'") /\ ~has("\"") THEN "\"" ELSE "'"
        esc(c) == IF c = q \/ c = "\\" THEN <<"\\", c>> ELSE <<c>>
        F[k \in 0..Len(s)] == IF k = 0 THEN <<>> ELSE F[k - 1] \o esc(s[k])
    IN <<q>> \o F[Len(s)] \o <<q>>

\* A plausible variant: the entries joined bare, without repr's quotes.
reprListBare(l) ==
    LET F[k \in 0..Len(l)] ==
            IF k = 0 THEN <<>>
            ELSE F[k - 1] \o (IF k = 1 THEN <<>> ELSE <<",", " ">>) \o l[k]
    IN <<"[">> \o F[Len(l)] \o <<"]">>

\* repr() of a list of str, as the f-string formats {color_names}.
reprList(l) ==
    LET F[k \in 0..Len(l)] ==
            IF k = 0 THEN <<>>
            ELSE F[k - 1] \o (IF k = 1 THEN <<>> ELSE <<",", " ">>) \o reprStr(l[k])
    IN <<"[">> \o F[Len(l)] \o <<"]">>

-----------------------------------------------------------------------------
(* The string literals of the script *)

\* "Self::"
SelfPrefix == <<"S", "e", "l", "f", ":", ":">>

\* "pub const "
PubConst == <<"p", "u", "b", " ", "c", "o", "n", "s", "t", " ">>

\* ": Self = Self::new("
SelfNew == <<":", " ", "S", "e", "l", "f", " ", "=", " ",
             "S", "e", "l", "f", ":", ":", "n", "e", "w", "(">>

\* "pub const ALL: [Self; "
AllHead == PubConst \o <<"A", "L", "L", ":", " ", "[", "S", "e", "l", "f", ";", " ">>

\* "] = "
AllMid == <<"]", " ", "=", " ">>

-----------------------------------------------------------------------------
(* The input: colors.json *)

\* Family names and brightness labels the tables are drawn from.  They hold a
\* pair differing only in letter case and a pair whose underscore joins
\* ambiguously: ("a_b", "50") and ("a", "b_50").
FamilyNames == {<<"a">>, <<"A">>, <<"a", "_", "b">>}

BrightnessKeys == {<<"5", "0">>, <<"b", "_", "5", "0">>}

Num(n) == [t |-> "num", v |-> n]

Str == [t |-> "str", v |-> 0]

\* Colour entries: a triple, an entry with a fourth element, an entry with two
\* elements, and a triple whose lightness is a JSON string.  The second and
\* third elements are numbers throughout: the script hands them to coloraide
\* untouched (line 14), and what the library does with another value is not
\* the script's.
Entries == { <<Num(100), Num(0), Num(0)>>,
             <<Num(50), Num(0), Num(0), Num(1)>>,
             <<Num(50), Num(0)>>,
             <<Str, Num(0), Num(0)>> }

\* The sequences of distinct elements of S: the key orders of a JSON object.
KeyOrders(S) ==
    UNION { { ks \in [1..n -> S] : \A a, b \in 1..n : a # b => ks[a] # ks[b] }
            : n \in 0..Cardinality(S) }

\* A family's value: an insertion-ordered dict brightness -> entry.  A dict is
\* the sequence of its items [key, val] in insertion order.
ShadeMaps ==
    UNION { { [k \in 1..Len(ks) |-> [key |-> ks[k], val |-> es[k]]]
              : es \in [1..Len(ks) -> Entries] }
            : ks \in KeyOrders(BrightnessKeys) }

RECURSIVE PairCount(_)
PairCount(d) == IF d = <<>> THEN 0
                ELSE Len(Head(d).val) + PairCount(Tail(d))

\* A plausible slip: iterating the keys in another order than the file's.
keysReversed(d) == [k \in 1..Len(d) |-> d[Len(d) + 1 - k].key]

\* dict.keys(), and the iteration of a dict: the keys in insertion order.
keys(d) == [k \in 1..Len(d) |-> d[k].key]

\* d[k]
get(d, k) == (CHOOSE e \in {d[x] : x \in 1..Len(d)} : e.key = k).val

-----------------------------------------------------------------------------
(* The loop body, lines 10-20 *)

\* A plausible slip: .upper() left out.
nameNotUppered(color_name, brightness) == color_name \o <<"_">> \o brightness

\* f"{color_name}_{brightness}".upper()
Name(color_name, brightness) == upper(color_name \o <<"_">> \o brightness)

\* A plausible variant: an entry must hold exactly three elements.
raisesUnlessThree(oklch) == Len(oklch) # 3 \/ oklch[1].t # "num"

\* Lines 12-13 raise: oklch[2] is an IndexError on a list shorter than three,
\* oklch[0] / 100 a TypeError on a str.
Raises(oklch) == Len(oklch) < 3 \/ oklch[1].t # "num"

\* [oklch[0] / 100, oklch[1], oklch[2]]: the quotient is kept as the pair of
\* its operands.
Normalized(oklch) == <<<<oklch[1].v, 100>>, oklch[2].v, oklch[3].v>>

\* The text of one channel of Color("oklch", n).convert("srgb-linear")
\* .fit("srgb-linear") as the f-string formats it.  coloraide is not part of
\* the repository and its floating-point result is not computed: the text is
\* the uninterpreted term ch(L/100,C,H), a function of the channel and the
\* normalized triple alone.
ChannelText(ch, n) ==
    <<ch, "(">> \o str(n[1][1]) \o <<"/">> \o str(n[1][2]) \o <<",">>
        \o str(n[2]) \o <<",">> \o str(n[3]) \o <<")">>

\* f"pub const {name}: Self = Self::new({r}, {g}, {b});"
ColorLine(name, oklch) ==
    LET n == Normalized(oklch)
    IN PubConst \o name \o SelfNew \o ChannelText("r", n) \o <<",", " ">>
          \o ChannelText("g", n) \o <<",", " ">> \o ChannelText("b", n)
          \o <<")", ";">>

\* f"pub const ALL: [Self; {len(color_names)}] = {color_names};"
AllLine(names) == AllHead \o str(Len(names)) \o AllMid \o reprList(names) \o <<";">>

\* A plausible variant: an identifier already listed is not listed again.
appendUnique(l, x) == IF \E k \in 1..Len(l) : l[k] = x THEN l ELSE Append(l, x)

\* A plausible slip: color_names.insert(0, x).
prepend(l, x) == <<x>> \o l

\* list.append
append(l, x) == Append(l, x)

-----------------------------------------------------------------------------
(* The script as a state machine *)

VARIABLES
    file,         \* colors.json: [state, table]; state is ok, missing or badjson
    pc,           \* start, opened, loop, closed, done, failed
    handle,       \* f: unopened, open, closed
    data,         \* the table json.load returned
    fi,           \* position of the outer for: the fi-th family is current
    bi,           \* position of the inner for: bi brightness keys are consumed
    color_names,  \* the accumulator of line 4
    out,          \* stdout: the lines printed so far
    run,          \* 1 in the first run of the script, 2 in the second
    before        \* the first run's outcome [pc, out], once the second began

vars == <<file, pc, handle, data, fi, bi, color_names, out, run, before>>

NoRun == [pc |-> "none", out |-> <<>>]

\* A process start up to line 4: color_names = [].
Fresh ==
    /\ pc = "start"
    /\ handle = "unopened"
    /\ data = <<>>
    /\ fi = 0
    /\ bi = 0
    /\ color_names = <<>>
    /\ out = <<>>

\* colors.json is missing, is not JSON, or holds a table family -> shade map
\* of at most MaxPairs pairs.
Init ==
    /\ \/ file \in [state : {"missing", "badjson"}, table : {<<>>}]
       \/ \E ns \in KeyOrders(FamilyNames) :
              \E ss \in [1..Len(ns) -> ShadeMaps] :
                  LET d == [f \in 1..Len(ns) |-> [key |-> ns[f], val |-> ss[f]]]
                  IN /\ PairCount(d) <= MaxPairs
                     /\ file = [state |-> "ok", table |-> d]
    /\ Fresh
    /\ run = 1
    /\ before = NoRun

\* Line 6: open('colors.json', 'r') enters the with block.
Open ==
    /\ pc = "start"
    /\ file.state # "missing"
    /\ handle' = "open"
    /\ pc' = "opened"
    /\ UNCHANGED <<file, data, fi, bi, color_names, out, run, before>>

\* Line 6 on a missing file: FileNotFoundError, nothing was opened.
OpenFail ==
    /\ pc = "start"
    /\ file.state = "missing"
    /\ pc' = "failed"
    /\ UNCHANGED <<file, handle, data, fi, bi, color_names, out, run, before>>

\* Line 7: data = json.load(f); line 8 then starts the outer iterator.
Load ==
    /\ pc = "opened"
    /\ file.state = "ok"
    /\ data' = file.table
    /\ fi' = 0
    /\ bi' = 0
    /\ pc' = "loop"
    /\ UNCHANGED <<file, handle, color_names, out, run, before>>

\* Line 7 on malformed JSON: JSONDecodeError leaves the with block, which
\* closes f.
LoadFail ==
    /\ pc = "opened"
    /\ file.state = "badjson"
    /\ handle' = "closed"
    /\ pc' = "failed"
    /\ UNCHANGED <<file, data, fi, bi, color_names, out, run, before>>

\* The inner for has consumed every brightness of the current family (or no
\* family is current yet).
InnerDone == IF fi = 0 THEN TRUE ELSE bi = Len(get(data, keys(data)[fi]))

\* Line 8: the outer for takes the next family; line 9 starts its iterator.
NextFamily ==
    /\ pc = "loop"
    /\ InnerDone
    /\ fi < Len(data)
    /\ fi' = fi + 1
    /\ bi' = 0
    /\ UNCHANGED <<file, pc, handle, data, color_names, out, run, before>>

\* Lines 9-20, one pass of the loop body that reaches the print.
Iterate ==
    /\ pc = "loop"
    /\ ~InnerDone
    /\ LET color_name == keys(data)[fi]
           brightness == keys(get(data, color_name))[bi + 1]
           name == Name(color_name, brightness)
           oklch == get(get(data, color_name), brightness)
       IN /\ ~Raises(oklch)
          /\ color_names' = append(color_names, SelfPrefix \o name)
          /\ out' = Append(out, ColorLine(name, oklch))
    /\ bi' = bi + 1
    /\ UNCHANGED <<file, pc, handle, data, fi, run, before>>

\* A plausible variant: the exception is caught and the pair skipped.
iterateFailSkips ==
    /\ pc = "loop"
    /\ ~InnerDone
    /\ LET color_name == keys(data)[fi]
           brightness == keys(get(data, color_name))[bi + 1]
           name == Name(color_name, brightness)
           oklch == get(get(data, color_name), brightness)
       IN /\ Raises(oklch)
          /\ color_names' = append(color_names, SelfPrefix \o name)
    /\ bi' = bi + 1
    /\ UNCHANGED <<file, pc, handle, data, fi, out, run, before>>

\* Lines 9-13, one pass of the loop body that raises at line 13: the
\* identifier is already appended (line 11), nothing is printed, the exception
\* leaves the with block, which closes f, and ends the script.
IterateFail ==
    /\ pc = "loop"
    /\ ~InnerDone
    /\ LET color_name == keys(data)[fi]
           brightness == keys(get(data, color_name))[bi + 1]
           name == Name(color_name, brightness)
           oklch == get(get(data, color_name), brightness)
       IN /\ Raises(oklch)
          /\ color_names' = append(color_names, SelfPrefix \o name)
    /\ handle' = "closed"
    /\ pc' = "failed"
    /\ UNCHANGED <<file, data, fi, bi, out, run, before>>

\* A plausible slip: f = open(...) without with, never closed.
exitWithoutClose ==
    /\ pc = "loop"
    /\ InnerDone
    /\ fi = Len(data)
    /\ pc' = "closed"
    /\ UNCHANGED <<file, handle, data, fi, bi, color_names, out, run, before>>

\* Line 8 exhausted: the with block ends and closes f.
ExitWith ==
    /\ pc = "loop"
    /\ InnerDone
    /\ fi = Len(data)
    /\ handle' = "closed"
    /\ pc' = "closed"
    /\ UNCHANGED <<file, data, fi, bi, color_names, out, run, before>>

\* A plausible slip: len(data), the number of families, as the length.
printAllLenData ==
    /\ pc = "closed"
    /\ out' = Append(out, AllHead \o str(Len(data)) \o AllMid
                             \o reprList(color_names) \o <<";">>)
    /\ pc' = "done"
    /\ UNCHANGED <<file, handle, data, fi, bi, color_names, run, before>>

\* Line 22.
PrintAll ==
    /\ pc = "closed"
    /\ out' = Append(out, AllLine(color_names))
    /\ pc' = "done"
    /\ UNCHANGED <<file, handle, data, fi, bi, color_names, run, before>>

\* A plausible variant: the accumulator survives from the first run (a cache,
\* a module kept loaded).
rerunKeepsNames ==
    /\ pc \in {"done", "failed"}
    /\ run = 1
    /\ before' = [pc |-> pc, out |-> out]
    /\ run' = 2
    /\ pc' = "start"
    /\ handle' = "unopened"
    /\ data' = <<>>
    /\ fi' = 0
    /\ bi' = 0
    /\ out' = <<>>
    /\ UNCHANGED <<file, color_names>>

\* The script is run a second time on the same colors.json: a new process,
\* which starts from line 1 again.
Rerun ==
    /\ pc \in {"done", "failed"}
    /\ run = 1
    /\ before' = [pc |-> pc, out |-> out]
    /\ run' = 2
    /\ pc' = "start"
    /\ handle' = "unopened"
    /\ data' = <<>>
    /\ fi' = 0
    /\ bi' = 0
    /\ color_names' = <<>>
    /\ out' = <<>>
    /\ UNCHANGED file

Next ==
    \/ Open
    \/ OpenFail
    \/ Load
    \/ LoadFail
    \/ NextFamily
    \/ Iterate
    \/ IterateFail
    \/ ExitWith
    \/ PrintAll

\* One run of the script.
Spec == Init /\ [][Next]_vars

NextTwice ==
    \/ Next
    \/ Rerun

\* Two runs of the script, one after the other, on the same colors.json.
SpecTwice == Init /\ [][NextTwice]_vars

-----------------------------------------------------------------------------
(* Vocabulary of the properties *)

\* The (family, brightness) pairs of a table in the file's declaration order.
RECURSIVE Pairs(_)
Pairs(d) ==
    IF d = <<>> THEN <<>>
    ELSE [k \in 1..Len(Head(d).val) |->
             [family |-> Head(d).key,
              brightness |-> Head(d).val[k].key,
              entry |-> Head(d).val[k].val]] \o Pairs(Tail(d))

InputPairs == Pairs(file.table)

\* upper(F + "_" + B)
Ident(p) == upper(p.family \o <<"_">> \o p.brightness)

StartsWith(l, prefix) ==
    Len(l) >= Len(prefix) /\ SubSeq(l, 1, Len(prefix)) = prefix

IsAllLine(l) == StartsWith(l, AllHead)

IsColorLine(l) == StartsWith(l, PubConst) /\ ~IsAllLine(l)

ColorLines == SelectSeq(out, IsColorLine)

AllLines == SelectSeq(out, IsAllLine)

\* The name a declaration line declares: the text between "pub const " and
\* the first colon.
NameOfLine(l) ==
    LET from == Len(PubConst) + 1
        colon == CHOOSE k \in from..Len(l) :
                     l[k] = ":" /\ \A j \in from..(k - 1) : l[j] # ":"
    IN SubSeq(l, from, colon - 1)

\* The first "]" of the ALL line closes its type annotation.
AnnotationEnd(l) ==
    CHOOSE k \in 1..Len(l) : l[k] = "]" /\ \A j \in 1..(k - 1) : l[j] # "]"

RECURSIVE ParseInt(_)
ParseInt(ds) ==
    IF ds = <<>> THEN 0
    ELSE 10 * ParseInt(SubSeq(ds, 1, Len(ds) - 1))
           + (CHOOSE n \in 0..9 : Digits[n + 1] = ds[Len(ds)])

\* The length N the ALL line declares in [Self; N].
DeclaredLength(l) == ParseInt(SubSeq(l, Len(AllHead) + 1, AnnotationEnd(l) - 1))

\* The text of the ALL line after the annotation, up to the final ";".
TextAfterAnnotation(l) == SubSeq(l, AnnotationEnd(l) + 1, Len(l) - 1)

\* An entry is a 3-element numeric sequence.
ValidTriple(e) == Len(e) = 3 /\ \A k \in 1..3 : e[k].t = "num"

\* The position of the first pair, in declaration order, whose processing
\* raises; 0 when there is none.
FirstRaising(ps) ==
    IF \E k \in 1..Len(ps) : Raises(ps[k].entry)
    THEN CHOOSE k \in 1..Len(ps) :
             /\ Raises(ps[k].entry)
             /\ \A j \in 1..(k - 1) : ~Raises(ps[j].entry)
    ELSE 0

\* The line of a pair: its name and the text of the three channels of its
\* converted triple (no line for an entry without three elements).
LineOf(p) ==
    IF Len(p.entry) < 3 THEN <<>> ELSE ColorLine(Ident(p), p.entry)

\* "[" + ", ".join("'Self::<ID>'") + "]"
QuotedList(ids) ==
    LET F[k \in 0..Len(ids)] ==
            IF k = 0 THEN <<>>
            ELSE F[k - 1] \o (IF k = 1 THEN <<>> ELSE <<",", " ">>)
                   \o <<"'">> \o SelfPrefix \o ids[k] \o <<"'">>
    IN <<"[">> \o F[Len(ids)] \o <<"]">>

\* The identifiers of the pairs ps, in their order.
RECURSIVE Idents(_)
Idents(ps) == IF ps = <<>> THEN <<>> ELSE <<Ident(Head(ps))>> \o Idents(Tail(ps))

\* The names the declaration lines ls declare, in their order.
RECURSIVE Names(_)
Names(ls) == IF ls = <<>> THEN <<>> ELSE <<NameOfLine(Head(ls))>> \o Names(Tail(ls))

\* Each text of l prefixed with "Self::".
RECURSIVE Prefixed(_)
Prefixed(l) == IF l = <<>> THEN <<>> ELSE <<SelfPrefix \o Head(l)>> \o Prefixed(Tail(l))

Distinct(l) == \A a, b \in 1..Len(l) : a # b => l[a] # l[b]

\* No quote and no backslash in the text: repr() writes it between single
\* quotes, unchanged.
Plain(t) == \A k \in 1..Len(t) : t[k] \notin {"'", "\"", "\\"}

IsPrefix(a, b) == Len(a) <= Len(b) /\ SubSeq(b, 1, Len(a)) = a

Count(l, x) == Cardinality({k \in 1..Len(l) : l[k] = x})

-----------------------------------------------------------------------------
(* Properties *)

\* C1: a completed run has printed exactly one per-colour line per (family,
\* brightness) pair of the table, and the length N declared by its final ALL
\* line is that same number of pairs (0 for a table without pairs); a table
\* whose entries are all 3-element numeric triples never makes the run fail.
C1_LineCount ==
    LET ps == InputPairs
    IN /\ pc = "done" =>
             /\ Len(ColorLines) = Len(ps)
             /\ DeclaredLength(out[Len(out)]) = Len(ps)
       /\ pc = "failed" =>
             \/ file.state # "ok"
             \/ \E k \in 1..Len(ps) : ~ValidTriple(ps[k].entry)

\* A completed run over two families, one of them with two brightness keys.
C1_Witness ==
    /\ pc = "done"
    /\ Len(data) = 2
    /\ Len(InputPairs) = 3
    /\ \A k \in 1..3 : ValidTriple(InputPairs[k].entry)

\* C2: at every moment the per-colour lines printed so far are the lines of
\* the first pairs of the table in its declaration order, family by family
\* and brightness by brightness; a completed run has printed the line of
\* every pair in that order.
C2_DeclarationOrder ==
    LET ps == InputPairs
        ls == ColorLines
    IN /\ Len(ls) <= Len(ps)
       /\ \A k \in 1..Len(ls) : ls[k] = LineOf(ps[k])
       /\ pc = "done" => Len(ls) = Len(ps)

\* A completed run whose families and brightness keys are declared in an
\* order that is neither alphabetical nor numeric.
C2_Witness ==
    /\ pc = "done"
    /\ Len(data) = 2
    /\ data[1].key = <<"a", "_", "b">>
    /\ data[2].key = <<"A">>
    /\ Len(data[1].val) = 2
    /\ data[1].val[1].key = <<"b", "_", "5", "0">>
    /\ data[1].val[2].key = <<"5", "0">>
    /\ Len(data[2].val) = 1

\* C3: the k-th per-colour line declares the name upper(F + "_" + B) of the
\* k-th pair (F, B), and the k-th entry of the accumulator is that name
\* prefixed with "Self::".
C3_Identifier ==
    LET ids == Idents(InputPairs)
        ls == ColorLines
    IN /\ Len(ls) <= Len(color_names)
       /\ Len(color_names) <= Len(ids)
       /\ \A k \in 1..Len(ls) :
             /\ StartsWith(ls[k], PubConst \o ids[k] \o <<":", " ">>)
             /\ NameOfLine(ls[k]) = ids[k]
       /\ \A k \in 1..Len(color_names) : color_names[k] = SelfPrefix \o ids[k]

\* Two lines are printed for pairs whose keys hold lower-case letters.
C3_Witness ==
    /\ Len(ColorLines) = 2
    /\ InputPairs[1].family = <<"a", "_", "b">>
    /\ InputPairs[2].brightness = <<"b", "_", "5", "0">>

\* C4: the ALL line is printed by a completed run only, once, as the last
\* line, and the list it holds names the identifiers of the per-colour lines
\* in the order of those lines.
C4_AllLast ==
    /\ pc # "done" => AllLines = <<>>
    /\ pc = "done" =>
          /\ Len(AllLines) = 1
          /\ IsAllLine(out[Len(out)])
          /\ TextAfterAnnotation(out[Len(out)]) =
                <<" ", "=", " ">> \o reprList(Prefixed(Names(ColorLines)))

\* A completed run that printed three per-colour lines with different names.
C4_Witness ==
    /\ pc = "done"
    /\ Len(ColorLines) = 3
    /\ Distinct(Names(ColorLines))

\* C5 as stated: the final line is
\* pub const ALL: [Self; <N>]: = [Self::<ID_1>, ..., Self::<ID_N>];
\* with bare entries and ": = " after the annotation.
C5_ShapeAsStated ==
    pc = "done" =>
        LET ids == Idents(InputPairs)
        IN out[Len(out)] = AllHead \o str(Len(ids)) \o <<"]", ":", " ", "=", " ">>
                             \o reprListBare(Prefixed(ids)) \o <<";">>

\* C5, amended: the final line is
\* pub const ALL: [Self; <N>] = ['Self::<ID_1>', ..., 'Self::<ID_N>'];
\* the annotation is followed by " = ", and every entry, for identifiers
\* without quote or backslash, stands between single quotes.
C5_ShapeAsPrinted ==
    pc = "done" =>
        LET ids == Idents(InputPairs)
        IN (\A k \in 1..Len(ids) : Plain(ids[k])) =>
              out[Len(out)] = AllHead \o str(Len(ids)) \o <<"]", " ", "=", " ">>
                                \o QuotedList(ids) \o <<";">>

\* A completed run whose ALL line lists two identifiers.
C5_Witness ==
    /\ pc = "done"
    /\ Len(InputPairs) = 2
    /\ \A k \in 1..2 : Plain(Idents(InputPairs)[k])

\* C6 as stated: a table with an entry that is not a 3-element numeric
\* sequence (too short, too long or with a non-numeric element) never lets the
\* run complete.
C6_FailsUnlessTriple ==
    pc = "done" =>
        LET ps == InputPairs
        IN \A k \in 1..Len(ps) : ValidTriple(ps[k].entry)

\* C6, amended: a table with an entry of fewer than three elements, or whose
\* first element is not a number, never lets the run complete, wherever the
\* entry stands; an entry of more than three elements does not make the run
\* fail: a run fails on a readable table only if some entry has fewer than
\* three elements or a non-numeric first element.
C6_FailsOnShortOrNonNumericFirst ==
    LET ps == InputPairs
    IN /\ pc = "done" =>
             \A k \in 1..Len(ps) :
                 Len(ps[k].entry) >= 3 /\ ps[k].entry[1].t = "num"
       /\ (pc = "failed" /\ file.state = "ok") =>
             \E k \in 1..Len(ps) :
                 Len(ps[k].entry) < 3 \/ ps[k].entry[1].t # "num"

\* A run that printed the line of a four-element entry and then failed on a
\* two-element entry that is not the first of the table.
C6_Witness ==
    /\ pc = "failed"
    /\ Len(InputPairs) >= 2
    /\ Len(InputPairs[1].entry) = 4
    /\ Len(InputPairs[2].entry) = 2
    /\ Len(out) = 1

C8_HaltsWithPrefix ==
    file.state = "ok" =>
        LET ps == InputPairs
            first == FirstRaising(ps)
        IN first > 0 =>
              /\ pc # "done"
              /\ Len(out) <= first - 1
              /\ \A k \in 1..Len(out) : out[k] = LineOf(ps[k])
              /\ pc = "failed" =>
                    /\ Len(out) = first - 1
                    /\ Len(color_names) = first
                    /\ color_names[first] = SelfPrefix \o Ident(ps[first])
                    /\ ~ENABLED (Open \/ Load \/ NextFamily \/ Iterate
                                   \/ IterateFail \/ ExitWith \/ PrintAll)

\* A run that failed on its third pair after printing two lines.
C8_Witness ==
    /\ pc = "failed"
    /\ FirstRaising(InputPairs) = 3
    /\ Len(out) = 2
    /\ Len(color_names) = 3

\* C9 as stated: no per-colour line is printed while the file handle is open.
C9_ClosedBeforeLines == handle = "open" => ColorLines = <<>>

\* C9, amended: the handle is opened once, by line 6, and stays open for the
\* whole iteration: every state of the loop, in which the per-colour lines are
\* printed, has it open; it is closed when the with block ends, normally or by
\* an exception, and so before the ALL line is printed.
C9_OpenDuringLoop ==
    /\ handle = "unopened" <=>
          (pc = "start" \/ (pc = "failed" /\ file.state = "missing"))
    /\ handle = "open" <=> pc \in {"opened", "loop"}
    /\ pc = "done" => handle = "closed"

\* A per-colour line is printed and the handle is still open.
C9_Witness ==
    /\ handle = "open"
    /\ pc = "loop"
    /\ Len(ColorLines) >= 1

\* C10: a completed run has printed, for every pair, as many declaration lines
\* with its identifier as there are pairs with that identifier, and lists the
\* identifier as often in ALL, whose N counts every pair; the printed names are
\* pairwise distinct exactly when upper(F + "_" + B) is injective on the pairs;
\* and a run fails only on a pair whose processing raises, never on a repeated
\* identifier.
C10_DuplicatesKept ==
    /\ pc = "done" =>
          LET ids == Idents(InputPairs)
              names == Names(ColorLines)
          IN /\ \A k \in 1..Len(ids) :
                   /\ Count(names, ids[k]) = Count(ids, ids[k])
                   /\ Count(color_names, SelfPrefix \o ids[k]) = Count(ids, ids[k])
             /\ DeclaredLength(out[Len(out)]) = Len(ids)
             /\ TextAfterAnnotation(out[Len(out)])
                   = <<" ", "=", " ">> \o reprList(color_names)
             /\ Distinct(names) <=> Distinct(ids)
    /\ (pc = "failed" /\ file.state = "ok") => FirstRaising(InputPairs) > 0

\* A completed run over ("a_b", "50"), ("a", "b_50") and ("A", "b_50"): one
\* identifier three times.
C10_Witness ==
    /\ pc = "done"
    /\ Len(InputPairs) = 3
    /\ InputPairs[1].family # InputPairs[2].family
    /\ InputPairs[1].brightness # InputPairs[2].brightness
    /\ Idents(InputPairs)[1] = Idents(InputPairs)[2]
    /\ Idents(InputPairs)[2] = Idents(InputPairs)[3]

====
